---- MODULE Spec2Model ----
(***************************************************************************)
(* The Tk text editor of src/text_editor.py as a state machine.            *)
(*                                                                         *)
(* The text widget holds the characters the user sees followed by one      *)
(* final newline that Tk never lets anybody delete.  `text` is the part    *)
(* before that final newline; TextGet(text) is what text.get(1.0, END)     *)
(* returns, the final newline included.  Offsets into `text` count         *)
(* characters from 0; positions of characters count from 1.               *)
(*                                                                         *)
(* Tk keeps its own modified flag for the widget (edit_modified) and       *)
(* queues a <<Modified>> virtual event whenever that flag changes value.   *)
(* `pending` counts the queued <<Modified>> events; the handler            *)
(* on_modified consumes one of them.                                       *)
(***************************************************************************)
EXTENDS Integers, Sequences, FiniteSets, TLC

\* ------------------------------------------------------------------ bounds
MaxLen == 2         \* longest buffer (characters before the final newline)
MaxPending == 1     \* most <<Modified>> events queued at once
MaxTerm == 1        \* longest string typed into a prompt
MaxFileLen == 2     \* longest file Save writes
MaxFindLen == 3     \* longest buffer the search specification starts from
MaxFindTerm == 2    \* longest search term of the search specification

\* -------------------------------------------------------------- alphabets
NL == "\n"
CR == "\r"
Chars == {"a", NL}                  \* what the user types into the buffer
TermChars == {"a", "A"}             \* what the user types into a search prompt
NewChars == {"a"}                   \* what the user types as a replacement
FindChars == {"a", "A", "b", NL}    \* buffer characters of the search specification
FindTermChars == {"a", "A", "b"}    \* term characters of the search specification

SeqsUpTo(S, n) == UNION {[1..k -> S] : k \in 0..n}

\* Python's None, as a value distinct from every string (the empty one too).
None == <<"<None>">>

\* The truth value Python gives a string or None in `if x:`.
Truthy(x) == x # None /\ x # <<>>

\* The files the dialogs can pick.
PathF == <<"/", "f">>
PathG == <<"/", "d", "/", "g">>
Paths == {PathF, PathG}

\* The files the user may read but not write: open(path, 'w') raises
\* PermissionError on them.
ReadOnly == {PathG}

\* ------------------------------------------------------------------- state
VARIABLES
    text,            \* widget content before the final newline
    insert,          \* the insert mark (cursor), an offset 0..Len(text)
    found,           \* positions (1-based) of the characters tagged "found"
    filename,        \* self.filename; <<>> (falsy) stands for None
    modified,        \* self.modified
    status,          \* text of the status label: <<name, row, col>>
    edit_modified,   \* Tk's modified flag of the text widget
    pending,         \* number of queued <<Modified>> events
    disk,            \* content of each file
    saved,           \* buffer content when last loaded, saved or created
    lastOp,          \* the last operation the user performed
    top,             \* line shown at the top of the text widget ("@0,0")
    height,          \* number of lines the text widget shows
    gutter,          \* line numbers drawn on the line_numbers canvas
    gutter_width,    \* configured width of the line_numbers canvas
    reported,        \* the view last passed to yscrollcommand
    find_loop        \* <<>>, or <<term, idx, tags>> of a running _find loop

vars == <<text, insert, found, filename, modified, status, edit_modified,
          pending, disk, saved, lastOp, top, height, gutter, gutter_width,
          reported, find_loop>>

\* ------------------------------------------------------- Tk text indices
\* text.get(1.0, END): the whole widget range, the final newline included.
TextGet(t) == t \o <<NL>>

\* Number of newlines among the first k characters of t.
RECURSIVE CountNL(_, _)
CountNL(t, k) ==
    IF k = 0 THEN 0
    ELSE CountNL(t, k - 1) + (IF t[k] = NL THEN 1 ELSE 0)

\* Offset of the first character of the line that holds offset k.
RECURSIVE LineStart(_, _)
LineStart(t, k) ==
    IF k = 0 THEN 0
    ELSE IF t[k] = NL THEN k
    ELSE LineStart(t, k - 1)

\* text.index(mark) as the pair <<line, column>> of "line.column":
\* lines count from 1, columns from 0.
TextIndex(t, k) == <<CountNL(t, k) + 1, k - LineStart(t, k)>>

\* int(text.index('end-1c').split('.')[0]): the number of lines.
LineCount(t) == CountNL(t, Len(t)) + 1

\* --------------------------------------------------------------- viewport
\* The text widget does not wrap (wrap=NONE), so it shows `height` lines of
\* the buffer from line `top` on.  Tk never leaves room below the last line
\* while lines above the window could fill it.
MaxTop(t, h) == IF LineCount(t) > h THEN LineCount(t) - h + 1 ELSE 1
ClampTop(t, tp, h) == IF tp > MaxTop(t, h) THEN MaxTop(t, h) ELSE tp

\* Last line shown.
Bottom(t, tp, h) == IF tp + h - 1 > LineCount(t) THEN LineCount(t) ELSE tp + h - 1

\* text.see(index) for an index on `line`: nothing when the line is shown, a
\* scroll by just enough when it is close to the window, else the line is
\* centred.  The result is the new top line.
SeeTop(t, tp, h, line) ==
    LET cur == ClampTop(t, tp, h)
        close == h \div 2
        centred == line - ((h - 1) \div 2)
    IN  IF line >= cur /\ line <= cur + h - 1 THEN cur
        ELSE IF line < cur /\ cur - line <= close THEN line
        ELSE IF line > cur + h - 1 /\ line - (cur + h - 1) <= close
             THEN line - h + 1
        ELSE ClampTop(t, IF centred < 1 THEN 1 ELSE centred, h)

\* The fractions Tk passes to yscrollcommand, as <<first, last, total>> in
\* lines: first / total and last / total.
Fractions(t, tp, h) == <<tp - 1, Bottom(t, tp, h), LineCount(t)>>
SameFractions(f, g) == f[1] * g[3] = g[1] * f[3] /\ f[2] * g[3] = g[2] * f[3]

\* ------------------------------------------------------ _update_line_numbers
\* font_obj.measure('9') and the margin added to the width.
DigitWidth == 10
GutterMargin == 10

\* len(str(n)) for n >= 0.
RECURSIVE Digits(_)
Digits(n) == IF n < 10 THEN 1 ELSE 1 + Digits(n \div 10)

\* new_width = digit_width * digits + 10.
GutterWidth(t) == DigitWidth * Digits(LineCount(t)) + GutterMargin

\* The while loop: from the line of "@0,0" on, one number for each line that
\* dlineinfo reports as displayed; "+1line" stops at the line behind the
\* last one, which is never displayed.
RECURSIVE LineNumbersFrom(_, _, _, _)
LineNumbersFrom(t, tp, h, line) ==
    IF line > LineCount(t) \/ line > tp + h - 1 THEN <<>>
    ELSE <<line>> \o LineNumbersFrom(t, tp, h, line + 1)

LineNumbers(t, tp, h) == LineNumbersFrom(t, tp, h, tp)

\* ----------------------------------------------------------- status bar
Untitled == <<"U", "n", "t", "i", "t", "l", "e", "d">>

\* os.path.basename: what follows the last "/".
RECURSIVE basename(_)
basename(p) ==
    IF p = <<>> THEN <<>>
    ELSE IF p[Len(p)] = "/" THEN <<>>
    ELSE basename(SubSeq(p, 1, Len(p) - 1)) \o <<p[Len(p)]>>

StatusTextZeroBased(fn, mod, t, ins) ==
    LET rc == TextIndex(t, ins)
        name == IF Truthy(fn) THEN basename(fn) ELSE Untitled
        shown == IF mod THEN name \o <<"*">> ELSE name
    IN  <<shown, rc[1], rc[2]>>

\* The label text _update_status_bar draws for a path, a flag and a cursor:
\* f"{name}    Ln {row}, Col {int(col)+1}".
StatusText(fn, mod, t, ins) ==
    LET rc == TextIndex(t, ins)
        name == IF Truthy(fn) THEN basename(fn) ELSE Untitled
        shown == IF mod THEN name \o <<"*">> ELSE name
    IN  <<shown, rc[1], rc[2] + 1>>

\* --------------------------------------------------- Tk modified tracking
\* One change of the widget's content: Tk sets its modified flag and queues
\* <<Modified>> when the flag changes value.  `changes` is the number of
\* content changes the operation made (a delete of nothing and an insert of
\* nothing are no change).
DirtyAfter(changes) == edit_modified \/ changes > 0
PendingAfter(changes) ==
    IF changes > 0 /\ ~edit_modified THEN pending + 1 ELSE pending

\* text.delete(1.0, END) changes the widget iff there is something to delete.
DeleteAllChanges(t) == IF t = <<>> THEN 0 ELSE 1
\* text.insert(END, s) changes the widget iff s is not empty.
InsertChanges(s) == IF s = <<>> THEN 0 ELSE 1

\* Tk calls yscrollcommand from its idle redisplay when the fractions differ
\* from the ones it passed last.
ScrollPending == ~SameFractions(Fractions(text, top, height), reported)

\* Nothing queued: no <<Modified>> event and no redisplay that has to report
\* a new view.
Quiescent == pending = 0 /\ ~ScrollPending

\* -------------------------------------------------------------------- Init
\* The state __init__ leaves once the window is displayed: no path, not
\* modified, empty widget, the status bar and the gutter drawn.  The window
\* is tall enough for every buffer within MaxLen.
Init ==
    /\ text = <<>>
    /\ insert = 0
    /\ found = {}
    /\ filename = <<>>
    /\ modified = FALSE
    /\ status = StatusText(<<>>, FALSE, <<>>, 0)
    /\ edit_modified = FALSE
    /\ pending = 0
    /\ disk = [p \in Paths |-> IF p = PathF THEN <<"a">> ELSE <<CR, NL>>]
    /\ saved = <<>>
    /\ lastOp = "init"
    /\ top = 1
    /\ height = MaxLen + 1
    /\ gutter = LineNumbers(<<>>, 1, height)
    /\ gutter_width = GutterWidth(<<>>)
    /\ reported = Fractions(<<>>, 1, height)
    /\ find_loop = <<>>

\* ------------------------------------------------------------ file text
\* What file.read() returns for a file opened with open(path, 'r'): Python's
\* universal newlines turn "\r\n" and a lone "\r" into "\n".
RECURSIVE ReadText(_)
ReadText(c) ==
    IF c = <<>> THEN <<>>
    ELSE IF Head(c) = CR /\ Len(c) > 1 /\ c[2] = NL THEN <<NL>> \o ReadText(SubSeq(c, 3, Len(c)))
    ELSE IF Head(c) = CR THEN <<NL>> \o ReadText(Tail(c))
    ELSE <<Head(c)>> \o ReadText(Tail(c))

\* os.linesep of the platform (POSIX).
LineSep == <<NL>>

\* What file.write(s) stores for a file opened with open(path, 'w'): each
\* "\n" becomes os.linesep.
RECURSIVE WriteText(_)
WriteText(s) ==
    IF s = <<>> THEN <<>>
    ELSE (IF Head(s) = NL THEN LineSep ELSE <<Head(s)>>) \o WriteText(Tail(s))

\* ------------------------------------------------------- typing and cursor
\* The "found" tag after one character is inserted at offset k: characters
\* behind the insertion point move up by one, and the new character takes
\* the tag only when the characters on both sides carry it.
TagsAfterInsert(tags, k) ==
    {p \in tags : p <= k} \cup {p + 1 : p \in {q \in tags : q > k}}
        \cup (IF k \in tags /\ (k + 1) \in tags THEN {k + 1} ELSE {})

\* The "found" tag after the character at position k is deleted.
TagsAfterDelete(tags, k) ==
    {p \in tags : p < k} \cup {p - 1 : p \in {q \in tags : q > k}}

\* A key press that inserts the character c at the insert mark.
InsertChar(c) ==
    /\ Len(text) < MaxLen
    /\ PendingAfter(1) <= MaxPending
    /\ text' = SubSeq(text, 1, insert) \o <<c>> \o SubSeq(text, insert + 1, Len(text))
    /\ insert' = insert + 1
    /\ found' = TagsAfterInsert(found, insert)
    /\ edit_modified' = DirtyAfter(1)
    /\ pending' = PendingAfter(1)
    /\ lastOp' = "insert"
    /\ top' = SeeTop(text', top, height, TextIndex(text', insert')[1])
    /\ UNCHANGED <<filename, modified, status, disk, saved>>
    /\ UNCHANGED <<height, gutter, gutter_width, reported, find_loop>>

\* BackSpace: deletes the character before the insert mark.
Backspace ==
    /\ insert > 0
    /\ PendingAfter(1) <= MaxPending
    /\ text' = SubSeq(text, 1, insert - 1) \o SubSeq(text, insert + 1, Len(text))
    /\ insert' = insert - 1
    /\ found' = TagsAfterDelete(found, insert)
    /\ edit_modified' = DirtyAfter(1)
    /\ pending' = PendingAfter(1)
    /\ lastOp' = "delete"
    /\ top' = SeeTop(text', top, height, TextIndex(text', insert')[1])
    /\ UNCHANGED <<filename, modified, status, disk, saved>>
    /\ UNCHANGED <<height, gutter, gutter_width, reported, find_loop>>

\* An arrow key or a mouse click: the insert mark moves and is kept in view.
MoveCursor(k) ==
    /\ k # insert
    /\ insert' = k
    /\ lastOp' = "other"
    /\ top' = SeeTop(text, top, height, TextIndex(text, k)[1])
    /\ UNCHANGED <<height, gutter, gutter_width, reported, find_loop>>
    /\ UNCHANGED <<text, found, filename, modified, status, edit_modified,
                   pending, disk, saved>>

\* ------------------------------------------------------------ _on_modified
\* The handler of one queued <<Modified>> event.  edit_modified(False) at its
\* end changes Tk's flag when the flag was set, which queues the event again.
\* _on_modified without self.text.edit_modified(False).
on_modified_no_reset ==
    /\ pending > 0
    /\ modified' = edit_modified
    /\ status' = StatusText(filename, edit_modified, text, insert)
    /\ edit_modified' = edit_modified
    /\ pending' = pending - 1
    /\ gutter' = LineNumbers(text, ClampTop(text, top, height), height)
    /\ gutter_width' = GutterWidth(text)
    /\ UNCHANGED <<text, insert, found, filename, disk, saved, lastOp>>
    /\ UNCHANGED <<top, height, reported, find_loop>>

on_modified ==
    /\ pending > 0
    /\ modified' = edit_modified
    /\ status' = StatusText(filename, edit_modified, text, insert)
    /\ edit_modified' = FALSE
    /\ pending' = (pending - 1) + (IF edit_modified THEN 1 ELSE 0)
    /\ gutter' = LineNumbers(text, ClampTop(text, top, height), height)
    /\ gutter_width' = GutterWidth(text)
    /\ UNCHANGED <<text, insert, found, filename, disk, saved, lastOp>>
    /\ UNCHANGED <<top, height, reported, find_loop>>

\* --------------------------------------------------------------- _new_file
\* _new_file without its first line: the path survives.
new_file_keeps_path ==
    /\ PendingAfter(DeleteAllChanges(text)) <= MaxPending
    /\ text' = <<>>
    /\ insert' = 0
    /\ found' = {}
    /\ edit_modified' = DirtyAfter(DeleteAllChanges(text))
    /\ pending' = PendingAfter(DeleteAllChanges(text))
    /\ modified' = FALSE
    /\ status' = StatusText(filename, FALSE, <<>>, 0)
    /\ lastOp' = "new"
    /\ top' = 1
    /\ UNCHANGED <<height, gutter, gutter_width, reported, find_loop>>
    /\ UNCHANGED <<filename, disk, saved>>

new_file ==
    /\ PendingAfter(DeleteAllChanges(text)) <= MaxPending
    /\ filename' = <<>>
    /\ text' = <<>>
    /\ insert' = 0
    /\ found' = {}
    /\ edit_modified' = DirtyAfter(DeleteAllChanges(text))
    /\ pending' = PendingAfter(DeleteAllChanges(text))
    /\ modified' = FALSE
    /\ status' = StatusText(<<>>, FALSE, <<>>, 0)
    /\ saved' = <<>>
    /\ lastOp' = "new"
    /\ top' = 1
    /\ UNCHANGED <<height, gutter, gutter_width, reported, find_loop>>
    /\ UNCHANGED disk

\* A prompt the user dismissed, or whose answer the operation rejects:
\* nothing happens.
Cancelled ==
    /\ lastOp' = "cancel"
    /\ UNCHANGED <<top, height, gutter, gutter_width, reported, find_loop>>
    /\ UNCHANGED <<text, insert, found, filename, modified, status,
                   edit_modified, pending, disk, saved>>

\* -------------------------------------------------------------- _open_file
\* _open_file without text.delete(1.0, END): the file's text is appended to
\* what the buffer holds.
open_file_appends(path) ==
    /\ Quiescent
    /\ IF Truthy(path)
       THEN LET content == text \o ReadText(disk[path])
                changes == InsertChanges(ReadText(disk[path]))
            IN  /\ Len(content) <= MaxLen
                /\ text' = content
                /\ found' = found
                /\ edit_modified' = DirtyAfter(changes)
                /\ pending' = PendingAfter(changes)
                /\ filename' = path
                /\ modified' = FALSE
                /\ insert' = Len(content)
                /\ status' = StatusText(path, FALSE, content, Len(content))
                /\ saved' = content
                /\ lastOp' = "open"
                /\ top' = SeeTop(content, 1, height, LineCount(content))
                /\ UNCHANGED <<height, gutter, gutter_width, reported, find_loop>>
                /\ UNCHANGED disk
       ELSE Cancelled

\* _open_file opening the file with mode 'w'.
open_file_truncates(path) ==
    /\ Quiescent
    /\ IF Truthy(path)
       THEN LET content == ReadText(disk[path])
                changes == DeleteAllChanges(text) + InsertChanges(content)
            IN  /\ Len(content) <= MaxLen
                /\ text' = content
                /\ found' = {}
                /\ edit_modified' = DirtyAfter(changes)
                /\ pending' = PendingAfter(changes)
                /\ filename' = path
                /\ modified' = FALSE
                /\ insert' = Len(content)
                /\ status' = StatusText(path, FALSE, content, Len(content))
                /\ saved' = content
                /\ lastOp' = "open"
                /\ top' = SeeTop(content, 1, height, LineCount(content))
                /\ UNCHANGED <<height, gutter, gutter_width, reported, find_loop>>
                /\ disk' = [disk EXCEPT ![path] = <<>>]
       ELSE Cancelled

\* path is what askopenfilename returned ("" when dismissed).  The dialog
\* runs the event loop, so the queued events are handled before it returns.
open_file(path) ==
    /\ Quiescent
    /\ IF Truthy(path)
       THEN LET content == ReadText(disk[path])
                changes == DeleteAllChanges(text) + InsertChanges(content)
            IN  /\ Len(content) <= MaxLen
                /\ text' = content
                /\ found' = {}
                /\ edit_modified' = DirtyAfter(changes)
                /\ pending' = PendingAfter(changes)
                /\ filename' = path
                /\ modified' = FALSE
                /\ insert' = Len(content)
                /\ status' = StatusText(path, FALSE, content, Len(content))
                /\ saved' = content
                /\ lastOp' = "open"
                /\ top' = SeeTop(content, 1, height, LineCount(content))
                /\ UNCHANGED <<height, gutter, gutter_width, reported, find_loop>>
                /\ UNCHANGED disk
       ELSE Cancelled

\* -------------------------------------------------------------- _save_file
\* The write branch without self.modified = False.
WriteToKeepsFlag(p) ==
    /\ filename' = p
    /\ UNCHANGED <<top, height, gutter, gutter_width, reported, find_loop>>
    /\ IF p \in ReadOnly
       THEN /\ lastOp' = "other"
            /\ UNCHANGED <<text, insert, found, modified, status,
                           edit_modified, pending, disk, saved>>
       ELSE /\ Len(WriteText(TextGet(text))) <= MaxFileLen
            /\ disk' = [disk EXCEPT ![p] = WriteText(TextGet(text))]
            /\ status' = StatusText(p, modified, text, insert)
            /\ saved' = text
            /\ lastOp' = "save"
            /\ UNCHANGED <<text, insert, found, modified, edit_modified, pending>>

\* The write branch of _save_file, reached with self.filename = p: the whole
\* widget range goes to the file at p, then the flag is cleared and the
\* status bar redrawn.  When open() raises, nothing of that happens: Tk
\* reports the exception of the callback and the event loop goes on.
WriteTo(p) ==
    /\ filename' = p
    /\ UNCHANGED <<top, height, gutter, gutter_width, reported, find_loop>>
    /\ IF p \in ReadOnly
       THEN /\ lastOp' = "other"
            /\ UNCHANGED <<text, insert, found, modified, status,
                           edit_modified, pending, disk, saved>>
       ELSE /\ Len(WriteText(TextGet(text))) <= MaxFileLen
            /\ disk' = [disk EXCEPT ![p] = WriteText(TextGet(text))]
            /\ modified' = FALSE
            /\ status' = StatusText(p, FALSE, text, insert)
            /\ saved' = text
            /\ lastOp' = "save"
            /\ UNCHANGED <<text, insert, found, edit_modified, pending>>

\* _save_file_as: path is what asksaveasfilename returned.  It sets
\* self.filename and calls _save_file, which then takes the write branch.
save_file_as(path) ==
    /\ Quiescent
    /\ IF Truthy(path) THEN WriteTo(path) ELSE Cancelled

\* _save_file: path is the answer of the Save-As dialog, asked only when no
\* path is known.
save_file(path) ==
    IF Truthy(filename)
    THEN path = <<>> /\ WriteTo(filename)
    ELSE save_file_as(path)

\* ------------------------------------------------------------------- _find
\* Tk compares -nocase by folding both sides to lower case.
Lower(c) == IF c = "A" THEN "a" ELSE IF c = "B" THEN "b" ELSE c

\* Whether term matches t at offset i, case folded.
MatchAt(t, term, i) ==
    /\ i + Len(term) <= Len(t)
    /\ \A k \in 1..Len(term) : Lower(t[i + k]) = Lower(term[k])

NoMatch == -1

\* A search that compares the characters as they are, without folding case.
RECURSIVE TextSearchExact(_, _, _)
TextSearchExact(t, term, idx) ==
    IF idx + Len(term) > Len(t) THEN NoMatch
    ELSE IF \A k \in 1..Len(term) : t[idx + k] = term[k] THEN idx
    ELSE TextSearchExact(t, term, idx + 1)

\* text.search(term, idx, nocase=1, stopindex=END): the offset of the first
\* match starting at idx or later, NoMatch ("") when there is none.
RECURSIVE TextSearch(_, _, _)
TextSearch(t, term, idx) ==
    IF idx + Len(term) > Len(t) THEN NoMatch
    ELSE IF MatchAt(t, term, idx) THEN idx
    ELSE TextSearch(t, term, idx + 1)

\* The while loop of _find: tag each match, resume right behind it.
RECURSIVE FindLoop(_, _, _, _)
FindLoop(t, term, idx, tags) ==
    LET at == TextSearch(t, term, idx)
    IN  IF at = NoMatch THEN tags
        ELSE FindLoop(t, term, at + Len(term),
                      tags \cup ((at + 1)..(at + Len(term))))

\* _find with tag_remove moved in front of the test of the term.
find_clears_first(term) ==
    /\ Quiescent
    /\ IF Truthy(term)
       THEN /\ found' = FindLoop(text, term, 0, {})
            /\ lastOp' = "other"
            /\ UNCHANGED <<top, height, gutter, gutter_width, reported, find_loop>>
            /\ UNCHANGED <<text, insert, filename, modified, status,
                           edit_modified, pending, disk, saved>>
       ELSE /\ found' = {}
            /\ lastOp' = "cancel"
            /\ UNCHANGED <<top, height, gutter, gutter_width, reported, find_loop>>
            /\ UNCHANGED <<text, insert, filename, modified, status,
                           edit_modified, pending, disk, saved>>

\* term is what askstring returned (None when dismissed).
find(term) ==
    /\ Quiescent
    /\ IF Truthy(term)
       THEN /\ found' = FindLoop(text, term, 0, {})
            /\ lastOp' = "other"
            /\ UNCHANGED <<top, height, gutter, gutter_width, reported, find_loop>>
            /\ UNCHANGED <<text, insert, filename, modified, status,
                           edit_modified, pending, disk, saved>>
       ELSE Cancelled

\* The same handler, one iteration of its loop at a time.  find_loop is
\* <<term, idx>> while the loop runs.  find_begin: the term was entered,
\* the old tags are removed and idx is "1.0".
find_begin(term) ==
    /\ Quiescent
    /\ find_loop = <<>>
    /\ Truthy(term)
    /\ found' = {}
    /\ find_loop' = <<term, 0>>
    /\ lastOp' = "other"
    /\ UNCHANGED <<top, height, gutter, gutter_width, reported>>
    /\ UNCHANGED <<text, insert, filename, modified, status,
                   edit_modified, pending, disk, saved>>

\* An iteration that resumes at the match instead of behind it.
find_step_no_advance ==
    /\ find_loop # <<>>
    /\ LET term == find_loop[1]
           at == TextSearch(text, term, find_loop[2])
       IN  IF at = NoMatch
           THEN /\ find_loop' = <<>>
                /\ UNCHANGED found
           ELSE /\ found' = found \cup ((at + 1)..(at + Len(term)))
                /\ find_loop' = <<term, at>>
    /\ UNCHANGED <<top, height, gutter, gutter_width, reported, lastOp>>
    /\ UNCHANGED <<text, insert, filename, modified, status,
                   edit_modified, pending, disk, saved>>

\* One iteration: search from idx up to END; break when nothing is found,
\* else tag the match and set idx to the index behind it.
find_step ==
    /\ find_loop # <<>>
    /\ LET term == find_loop[1]
           at == TextSearch(text, term, find_loop[2])
       IN  IF at = NoMatch
           THEN /\ find_loop' = <<>>
                /\ UNCHANGED found
           ELSE /\ found' = found \cup ((at + 1)..(at + Len(term)))
                /\ find_loop' = <<term, at + Len(term)>>
    /\ UNCHANGED <<top, height, gutter, gutter_width, reported, lastOp>>
    /\ UNCHANGED <<text, insert, filename, modified, status,
                   edit_modified, pending, disk, saved>>

\* tag_ranges("found"): the maximal runs of tagged characters, each as
\* <<first offset, offset behind the last>>.
TagRanges(tags) ==
    {<<i - 1, j>> : <<i, j>> \in
        {r \in tags \X tags :
            /\ r[1] <= r[2]
            /\ \A k \in r[1]..r[2] : k \in tags
            /\ (r[1] - 1) \notin tags
            /\ (r[2] + 1) \notin tags}}

\* ---------------------------------------------------------------- _replace
\* str.replace(old, new) for a non-empty old: left to right, no overlap.
RECURSIVE PyReplace(_, _, _)
PyReplace(s, old, new) ==
    IF Len(s) < Len(old) THEN s
    ELSE IF SubSeq(s, 1, Len(old)) = old
         THEN new \o PyReplace(SubSeq(s, Len(old) + 1, Len(s)), old, new)
         ELSE <<Head(s)>> \o PyReplace(Tail(s), old, new)

\* fnd and rep are what the two askstring prompts returned.  The content
\* read is the whole widget range, and all of it is inserted back in front
\* of the widget's final newline; the insert mark ends behind it.
replace(fnd, rep) ==
    /\ Quiescent
    /\ IF Truthy(fnd) /\ rep # None
       THEN LET content == PyReplace(TextGet(text), fnd, rep)
                changes == DeleteAllChanges(text) + InsertChanges(content)
            IN  /\ Len(content) <= MaxLen
                /\ text' = content
                /\ insert' = Len(content)
                /\ found' = {}
                /\ edit_modified' = DirtyAfter(changes)
                /\ pending' = PendingAfter(changes)
                /\ lastOp' = "other"
                /\ top' = 1
                /\ UNCHANGED <<height, gutter, gutter_width, reported, find_loop>>
                /\ UNCHANGED <<filename, modified, status, disk, saved>>
       ELSE Cancelled

\* -------------------------------------------------------------- _goto_line
\* Offset of the index "line.0": the start of that line, the end of the text
\* when the buffer has fewer lines.
RECURSIVE LineOffset(_, _)
LineOffset(t, line) ==
    IF line <= 1 THEN 0
    ELSE IF t = <<>> THEN 0
    ELSE 1 + LineOffset(Tail(t), IF Head(t) = NL THEN line - 1 ELSE line)

goto_line_no_see(answered, line) ==
    /\ Quiescent
    /\ IF answered /\ line # 0
       THEN /\ insert' = LineOffset(text, line)
            /\ lastOp' = "other"
            /\ UNCHANGED <<top, height, gutter, gutter_width, reported, find_loop>>
            /\ UNCHANGED <<text, found, filename, modified, status,
                           edit_modified, pending, disk, saved>>
       ELSE Cancelled

\* answered is FALSE when askinteger returned None, else line is its value.
goto_line(answered, line) ==
    /\ Quiescent
    /\ IF answered /\ line # 0
       THEN /\ insert' = LineOffset(text, line)
            /\ lastOp' = "other"
            /\ top' = SeeTop(text, top, height,
                             TextIndex(text, LineOffset(text, line))[1])
            /\ UNCHANGED <<height, gutter, gutter_width, reported, find_loop>>
            /\ UNCHANGED <<text, found, filename, modified, status,
                           edit_modified, pending, disk, saved>>
       ELSE Cancelled

\* -------------------------------------------------------- _on_text_scroll_y
\* Tk's idle redisplay reports the new view: yview_moveto(first) keeps the
\* view it is given, then the gutter is redrawn.
on_text_scroll_y_no_redraw ==
    /\ pending = 0
    /\ ScrollPending
    /\ reported' = Fractions(text, top, height)
    /\ UNCHANGED <<text, insert, found, filename, modified, status,
                   edit_modified, pending, disk, saved, lastOp>>
    /\ UNCHANGED <<top, height, gutter, gutter_width, find_loop>>

on_text_scroll_y ==
    /\ pending = 0
    /\ ScrollPending
    /\ reported' = Fractions(text, top, height)
    /\ gutter' = LineNumbers(text, top, height)
    /\ gutter_width' = GutterWidth(text)
    /\ UNCHANGED <<text, insert, found, filename, modified, status,
                   edit_modified, pending, disk, saved, lastOp>>
    /\ UNCHANGED <<top, height, find_loop>>

\* The mouse wheel over the text widget: the view moves, the cursor stays.
\* One wheel event per redisplay.
Scroll(tp) ==
    /\ ~ScrollPending
    /\ tp # top
    /\ tp <= MaxTop(text, height)
    /\ top' = tp
    /\ lastOp' = "scroll"
    /\ UNCHANGED <<text, insert, found, filename, modified, status,
                   edit_modified, pending, disk, saved>>
    /\ UNCHANGED <<height, gutter, gutter_width, reported, find_loop>>

\* -------------------------------------------------------------------- Next
TermAnswers == {None} \cup SeqsUpTo(TermChars, MaxTerm)
NewAnswers == {None} \cup SeqsUpTo(NewChars, MaxTerm)
PathAnswers == {<<>>} \cup Paths

Next ==
    \/ \E c \in Chars : InsertChar(c)
    \/ Backspace
    \/ \E k \in 0..Len(text) : MoveCursor(k)
    \/ on_modified
    \/ new_file
    \/ \E path \in PathAnswers : open_file(path)
    \/ \E path \in PathAnswers : save_file(path)
    \/ \E path \in PathAnswers : save_file_as(path)
    \/ \E term \in TermAnswers : find(term)
    \/ \E fnd \in {None, <<>>} : replace(fnd, None)
    \/ \E fnd \in TermAnswers \ {None, <<>>}, rep \in NewAnswers : replace(fnd, rep)
    \/ goto_line(FALSE, 0)
    \/ \E line \in 0..(MaxLen + 2) : goto_line(TRUE, line)

Spec == Init /\ [][Next]_vars

\* -------------------------------------------------- the view specification
\* Buffers longer than the window: up to MaxViewNL + 1 lines in a window of
\* up to MaxViewHeight lines, as the user has typed them (events handled,
\* cursor behind the last character, the last line in view, gutter and
\* status bar drawn).  The user edits, scrolls and goes to lines.
MaxViewNL == 9
MaxViewHeight == 2

InitView ==
    /\ text \in {[i \in 1..k |-> NL] : k \in 0..MaxViewNL}
    /\ insert = Len(text)
    /\ found = {}
    /\ filename = <<>>
    /\ modified = FALSE
    /\ status = StatusText(<<>>, FALSE, text, Len(text))
    /\ edit_modified = FALSE
    /\ pending = 0
    /\ disk = [p \in Paths |-> IF p = PathF THEN <<"a">> ELSE <<CR, NL>>]
    /\ saved = <<>>
    /\ lastOp = IF text = <<>> THEN "init" ELSE "insert"
    /\ height \in 1..MaxViewHeight
    /\ top = MaxTop(text, height)
    /\ gutter = LineNumbers(text, top, height)
    /\ gutter_width = GutterWidth(text)
    /\ reported = Fractions(text, top, height)
    /\ find_loop = <<>>

NextView ==
    \/ \E c \in Chars : InsertChar(c)
    \/ Backspace
    \/ on_modified
    \/ on_text_scroll_y
    \/ \E tp \in 1..(MaxViewNL + 1) : Scroll(tp)
    \/ goto_line(FALSE, 0)
    \/ \E line \in 0..(MaxViewNL + 2) : goto_line(TRUE, line)

SpecView == InitView /\ [][NextView]_vars

\* ------------------------------------------ the notification specification
\* One buffer change at a time: the user changes the buffer only when the
\* queue is empty, and the event loop handles every queued <<Modified>>.
NextChain ==
    \/ Quiescent /\ \E c \in Chars : InsertChar(c)
    \/ Quiescent /\ Backspace
    \/ Quiescent /\ new_file
    \/ \E path \in Paths : open_file(path)
    \/ \E fnd \in TermAnswers \ {None, <<>>}, rep \in NewAnswers \ {None} :
          replace(fnd, rep)
    \/ on_modified

SpecChain == Init /\ [][NextChain]_vars /\ WF_vars(on_modified)

\* ------------------------------------------------ the search specification
\* Find alone, started from every buffer up to MaxFindLen characters (and the
\* buffer of the specification's example) as the user has typed it: events
\* handled, cursor behind the last character, status bar drawn by the
\* handler.
ExampleText == <<"x", "a", "b", "c", "x", "a", "b", "c">>
ExampleTerm == <<"a", "b", "c">>

InitFind ==
    /\ text \in SeqsUpTo(FindChars, MaxFindLen) \cup {ExampleText}
    /\ insert = Len(text)
    /\ found = {}
    /\ filename = <<>>
    /\ modified = FALSE
    /\ status = StatusText(<<>>, FALSE, text, Len(text))
    /\ edit_modified = FALSE
    /\ pending = 0
    /\ disk = [p \in Paths |-> IF p = PathF THEN <<"a">> ELSE <<CR, NL>>]
    /\ saved = <<>>
    /\ lastOp = IF text = <<>> THEN "init" ELSE "insert"
    /\ height = MaxFindLen + 1
    /\ top = 1
    /\ gutter = LineNumbers(text, 1, height)
    /\ gutter_width = GutterWidth(text)
    /\ reported = Fractions(text, 1, height)
    /\ find_loop = <<>>

FindAnswers == {None, ExampleTerm} \cup SeqsUpTo(FindTermChars, MaxFindTerm)

NextFind == \E term \in FindAnswers : find(term)

SpecFind == InitFind /\ [][NextFind]_vars

\* The search loop of the handler step by step, from the same buffers: the
\* handler's code runs to its end once it is started.
NextLoop ==
    \/ \E term \in FindAnswers : find_begin(term)
    \/ find_step

SpecLoop == InitFind /\ [][NextLoop]_vars /\ WF_vars(find_step)

\* ================================================================== claims

\* Two characters that differ at most in case.
SameLetter(c, d) ==
    \/ c = d
    \/ {c, d} = {"a", "A"}
    \/ {c, d} = {"b", "B"}

\* Every offset at which term occurs in t, compared case-insensitively.
Occurrences(t, term) ==
    {i \in 0..(Len(t) - Len(term)) :
        \A k \in 1..Len(term) : SameLetter(t[i + k], term[k])}

\* The occurrences a left-to-right scan without overlap keeps: an occurrence
\* is kept iff no kept occurrence to its left covers its first character.
Scanned(t, term) ==
    CHOOSE S \in SUBSET Occurrences(t, term) :
        \A i \in Occurrences(t, term) :
            i \in S <=> ~ \E j \in S : j < i /\ i < j + Len(term)

\* C1 (as stated): whenever no event is pending, the modified flag is true
\* if and only if the buffer differs from the content last loaded, saved or
\* created.
C1_ModifiedIffUnsaved ==
    Quiescent => (modified <=> text # saved)

\* C2 (as stated): once the notifications of an insertion or deletion are
\* handled the modified flag is true, and once those of a Save or an Open are
\* handled it is false.
C2_EditSetsModified ==
    Quiescent =>
        /\ lastOp \in {"insert", "delete"} => modified
        /\ lastOp \in {"save", "open"} => ~modified

\* C3 (as stated): a Save that follows an Open of the same path with no
\* operation in between leaves the file with the content it had.
C3_OpenSaveRoundTrip ==
    [][(lastOp = "open" /\ lastOp' = "save" /\ filename' = filename)
          => disk'[filename] = disk[filename]]_vars

C5_OpenLoadsFile ==
    [][\A p \in Paths :
          open_file(p) =>
              /\ text' = ReadText(disk[p])
              /\ (\A k \in 1..Len(disk[p]) : disk[p][k] # CR) => text' = disk[p]
              /\ filename' = p
              /\ ~modified'
              /\ insert' = Len(text')]_vars

\* C5 witness: a file has been opened over a buffer that held other text
\* (the other file, opened before).
C5_Witness ==
    /\ lastOp = "open"
    /\ filename = PathF
    /\ text = disk[PathF]
    /\ insert = Len(text)
    /\ status[1] = <<"f">>
    /\ ~modified

\* C6: after New, once every notification is handled, the buffer is empty,
\* the path is unset and the modified flag is false.
C6_NewResets ==
    (lastOp = "new" /\ Quiescent) =>
        /\ text = <<>>
        /\ filename = <<>>
        /\ ~modified

\* C6 witness: New has run in a session that had saved a file, and its
\* notifications are handled.
C6_Witness ==
    /\ lastOp = "new"
    /\ Quiescent
    /\ disk[PathF] = <<"a", NL>>
    /\ text = <<>>
    /\ filename = <<>>

\* C7 (as stated): Replace turns the buffer content into its literal global
\* replacement, no other character added or removed.
C7_ReplaceIsGlobalReplacement ==
    [][\A fnd \in TermAnswers, rep \in NewAnswers :
          (Truthy(fnd) /\ rep # None /\ replace(fnd, rep))
              => text' = PyReplace(text, fnd, rep)]_vars

\* C8 (as amended): after Find with a non-empty term the highlighted
\* characters are exactly those of the occurrences of the term, compared
\* case-insensitively and scanned left to right without overlap; whatever an
\* earlier Find highlighted is gone.
C8_FindHighlightsOccurrences ==
    [][\A term \in FindAnswers :
          (Truthy(term) /\ find(term)) =>
              found' = UNION {(i + 1)..(i + Len(term)) : i \in Scanned(text, term)}]_vars

\* C8 witness: the example of the specification, "xabcxabc" searched for
\* "abc", with its two highlighted ranges at offsets 1 and 5.
C8_Witness ==
    /\ text = ExampleText
    /\ TagRanges(found) = {<<1, 4>>, <<5, 8>>}

\* C8 as stated: the highlighted ranges are the ranges [i, i+len(term)) of the
\* occurrences, one range for each.
C8_RangesAreOccurrences ==
    [][\A term \in FindAnswers :
          (Truthy(term) /\ find(term)) =>
              TagRanges(found') = {<<i, i + Len(term)>> : i \in Scanned(text, term)}]_vars


\* The state a no-op leaves alone.
NoOpFrame == <<text, filename, modified, insert, found, disk, status,
               edit_modified, pending>>

\* C9 (as amended): a dismissed prompt of Open, Save-As (also when Save asks
\* for the path), Find, Replace or Goto-line, and an empty answer to Open,
\* Save-As, Find or the find-term prompt of Replace, leave buffer, path,
\* modified flag, cursor, highlights and every file unchanged.
C9_DismissedIsNoOp ==
    [][(/\ lastOp' = "cancel"
        /\ \/ open_file(<<>>)
           \/ save_file_as(<<>>)
           \/ (~Truthy(filename) /\ save_file(<<>>))
           \/ \E term \in {None, <<>>} : find(term)
           \/ \E fnd \in {None, <<>>}, rep \in NewAnswers : replace(fnd, rep)
           \/ \E fnd \in TermAnswers : replace(fnd, None)
           \/ \E line \in 0..(MaxLen + 2) : goto_line(FALSE, line))
          => UNCHANGED NoOpFrame]_vars

\* C9 witness: a prompt has been dismissed in a state with a path, text and
\* highlights.
C9_Witness ==
    /\ lastOp = "cancel"
    /\ found # {}
    /\ filename # <<>>
    /\ text # <<>>

\* C9 as stated: an empty answer to either prompt of Replace is a no-op too.
C9_EmptyIsNoOp ==
    [][(\/ open_file(<<>>)
        \/ save_file_as(<<>>)
        \/ \E term \in {None, <<>>} : find(term)
        \/ \E fnd \in {None, <<>>}, rep \in NewAnswers : replace(fnd, rep)
        \/ \E fnd \in TermAnswers, rep \in {None, <<>>} : replace(fnd, rep)
        \/ \E line \in 0..(MaxLen + 2) : goto_line(FALSE, line))
          => UNCHANGED NoOpFrame]_vars

\* C10 (as stated): whenever no event is pending, the status bar shows the
\* base name of the path (or "Untitled"), the marker iff the modified flag is
\* set, and the line and column of the cursor.
C10_StatusBarUpToDate ==
    Quiescent => status = StatusText(filename, modified, text, insert)


\* C11: going to line n, 1 <= n <= line count, puts the cursor on line n,
\* column 0, brings line n into view, and leaves the buffer content, the
\* path and the modified flag as they were.
C11_GotoLineMovesCursor ==
    [][\A n \in 1..(MaxViewNL + 2) :
         (n <= LineCount(text) /\ goto_line(TRUE, n)) =>
             /\ TextIndex(text', insert') = <<n, 0>>
             /\ top' <= n /\ n < top' + height'
             /\ text' = text
             /\ filename' = filename
             /\ modified' = modified]_vars

\* Goto-line 3 was answered on a five-line buffer whose window showed lines
\* 4 and 5: the cursor is at 3.0 and line 3 is the first line shown.
C11_Witness ==
    /\ text = <<NL, NL, NL, NL>>
    /\ lastOp = "other"
    /\ TextIndex(text, insert) = <<3, 0>>
    /\ height = 2
    /\ top = 3

\* C12: every redraw of the status bar (by the <<Modified>> handler, New,
\* Open and a successful Save) reports the cursor's 1-based line, and as
\* column the cursor's 0-based column plus 1, which is never less than 1.
C12_StatusReportsCursor ==
    [][(on_modified \/ lastOp' \in {"new", "open", "save"}) =>
         LET before == {i \in 1..insert' : text'[i] = NL}
             line == Cardinality(before) + 1
             column == Cardinality({i \in 1..insert' : \A j \in before : j < i})
         IN  /\ status'[2] = line
             /\ status'[3] = column + 1
             /\ status'[3] >= 1]_vars

\* The handler has redrawn the bar after the user typed "a" and a newline:
\* the cursor at 2.0 is reported as line 2, column 1.
C12_Witness ==
    /\ Quiescent
    /\ lastOp = "insert"
    /\ text = <<"a", NL>>
    /\ insert = 2
    /\ status[2] = 2
    /\ status[3] = 1

\* C14 (as stated): when the write of Save or Save-As fails, the path, the
\* modified flag and the buffer content are what they were before the
\* operation.
C14_FailedWriteKeepsState ==
    [][\A path \in PathAnswers :
         ((save_file(path) \/ save_file_as(path)) /\ filename' \in ReadOnly)
             => UNCHANGED <<filename, modified, text>>]_vars

\* C13: once the events of a content or scroll change are handled, the
\* gutter shows the numbers of exactly the lines in view, consecutive from
\* the first one and each once, and its width is the digit width times the
\* number of digits of the line count, plus 10.
C13_GutterShowsVisibleLines ==
    Quiescent =>
        /\ Len(gutter) =
              Cardinality({l \in 1..LineCount(text) : top <= l /\ l < top + height})
        /\ \A i \in 1..Len(gutter) : gutter[i] = top + i - 1
        /\ \E d \in 1..3 :
              /\ 10 ^ (d - 1) <= LineCount(text)
              /\ LineCount(text) < 10 ^ d
              /\ gutter_width = DigitWidth * d + 10

\* The user scrolled a ten-line buffer to line 4: the gutter shows 4 and 5
\* and is two digits wide.
C13_Witness ==
    /\ Quiescent
    /\ lastOp = "scroll"
    /\ LineCount(text) = 10
    /\ top = 4
    /\ gutter = <<4, 5>>
    /\ gutter_width = 2 * DigitWidth + 10

\* C16: a step that changes a file is a Save or a Save-As, and it changes
\* only the file at the path that is current when the write happens; every
\* other operation leaves every file as it is.
C16_OnlySaveWritesFiles ==
    [][disk' # disk =>
         /\ \E path \in PathAnswers : save_file(path) \/ save_file_as(path)
         /\ \A p \in Paths : p # filename' => disk'[p] = disk[p]]_vars

\* The empty buffer was saved to /f: that file holds the final newline, the
\* other file is what it was at the start.
C16_Witness ==
    /\ lastOp = "save"
    /\ filename = PathF
    /\ text = <<>>
    /\ disk[PathF] = <<NL>>
    /\ disk[PathG] = <<CR, NL>>

\* Notifications still to be handled: each queued event counts 2, a set
\* flag, which the handler's reset turns into one more event, counts 1.
Outstanding == 2 * pending + (IF edit_modified THEN 1 ELSE 0)

\* C15: one buffer change starts a finite chain of <<Modified>> events: every
\* run of the handler lowers what is outstanding, which one change raises to
\* at most 3, so the handler runs at most twice; the queue becomes empty;
\* with the queue empty Tk's flag is false, and the next change of the
\* buffer queues a notification again.
C15_ModifiedChainEnds ==
    /\ [](Outstanding <= 3)
    /\ [](pending = 0 => ~edit_modified)
    /\ [][on_modified => Outstanding' < Outstanding]_vars
    /\ [][(pending = 0 /\ text' # text) => pending' = 1]_vars
    /\ (pending > 0 ~> pending = 0)

\* The handler has run once after the user typed "a": it has copied the set
\* flag and reset it, and the event of that reset is queued.
C15_Witness ==
    /\ lastOp = "insert"
    /\ text = <<"a">>
    /\ pending = 1
    /\ ~edit_modified
    /\ modified

\* C17: the loop of Find ends for every buffer and every non-empty term.
\* Each iteration that finds a match resumes right behind it, at match start
\* + len(term), which is past the index it searched from and not past the
\* end of the buffer; a match is never before the index searched from (no
\* wrap-around); the loop exits exactly when no occurrence is left at or
\* behind that index, having tagged what Find as a whole tags; and no
\* iteration changes the content, the path or the modified flag.
C17_FindLoopTerminates ==
    /\ [][find_step =>
            LET term == find_loop[1]
                idx == find_loop[2]
                left == {i \in Occurrences(text, term) : i >= idx}
            IN  /\ UNCHANGED <<text, filename, modified>>
                /\ IF left = {}
                   THEN /\ find_loop' = <<>>
                        /\ found' = FindLoop(text, term, 0, {})
                   ELSE /\ find_loop' # <<>>
                        /\ find_loop'[2] > idx
                        /\ find_loop'[2] <= Len(text)
                        /\ \E i \in left :
                              /\ \A j \in left : i <= j
                              /\ find_loop'[2] = i + Len(term)]_vars
    /\ [][(\E term \in FindAnswers : find_begin(term)) =>
            UNCHANGED <<text, filename, modified>>]_vars
    /\ (find_loop # <<>> ~> find_loop = <<>>)

\* The loop has handled the first "abc" of "xabcxabc" and resumes at
\* offset 4.
C17_Witness ==
    /\ text = ExampleText
    /\ find_loop = <<ExampleTerm, 4>>
    /\ found = {2, 3, 4}

====
